---- MODULE Spec2Model ----
(***************************************************************************)
(* quantdsl: the dependency graph of stubbed calls, its execution order    *)
(* (Kahn's algorithm), the CallLink chain and the contract valuation that  *)
(* replays the chain.                                                      *)
(*   src/quantdsl/domain/services/dependency_graphs.py                     *)
(*   src/quantdsl/application/base.py                                      *)
(***************************************************************************)
EXTENDS Integers, Sequences, FiniteSets

\* Number of distinct call ids the stub generator may emit.
MaxCalls == 3
\* Number of times one operation (graph generation, valuation) may be started.
MaxRuns == 2

\* Number of dependencies that close a cycle in a malformed program.
MaxBackEdges == 1

\* Number of workers of the pool that evaluates the frontier concurrently.
MaxWorkers == 2

Ids == 1..MaxCalls

\* generate_stubbed_calls is handed contract_specification.id as the id of the
\* root stub, and the link chain starts at the same id.
contract_specification_id == 1

\* a value that is no call id: a local that is not assigned yet, a key that
\* a repository does not hold
NoCall == contract_specification_id - 1

VARIABLES
    \* ---- the stubbed calls the stub generator emits (input)
    calls,                  \* ids of the stubbed calls
    dependencies,           \* stub.dependencies of every call id
    dup,                    \* a call the generator emits twice, or NoCall
    host,                   \* "generate": the host calls generate_dependency_graph
                            \* "api": the host registers the calls with the register
                            \*   methods of the application and the links of the
                            \*   chain in an order of its choice
                            \* "workers": a pool of workers takes the calls from
                            \*   the frontier of the scheduler and evaluates them
                            \*   concurrently
    \* ---- repositories
    call_requirement_repo,  \* set of call ids with a CallRequirement
    call_dependencies_repo, \* call id -> set of call ids
    call_dependents_repo,   \* call id -> list of call ids
    call_link_repo,         \* link id -> call id
    call_result_repo,       \* set of call ids with a CallResult
    \* ---- generate_dependency_graph
    pc,
    stubs,                  \* the stubs not emitted yet
    stub,                   \* the stub in hand between lines 36 and 39
    leaf_call_ids,
    all_dependents,
    link_id,
    returned,               \* what generate_dependency_graph handed to its caller
    link_writes,            \* link id -> register_call_link calls of this run
    \* ---- generate_execution_order
    S,
    removed_edges,
    n,
    order,                  \* the call ids yielded so far, in order
    running,                \* the calls the workers of the pool are evaluating
    \* ---- generate_contract_valuation
    val_link_id,            \* link_id of regenerate_execution_order
    evaluated,              \* call id -> register_call_result calls of this run
    raised,                 \* the error that ended the last operation
    \* ---- runs
    registered,             \* call id -> register_call_requirement calls of this run
    prior_requirements,     \* call_requirement_repo when the run under way started
    prior_results,          \* call_result_repo when the run under way started
    runs                    \* times the operation under way was started

vars == << calls, dependencies, dup, host,
           call_requirement_repo, call_dependencies_repo, call_dependents_repo,
           call_link_repo, call_result_repo,
           pc, stubs, stub, leaf_call_ids, all_dependents, link_id,
           returned, link_writes,
           S, removed_edges, n, order, running,
           val_link_id, evaluated, raised,
           registered, prior_requirements, prior_results, runs >>

inputVars == << calls, dependencies, dup, host >>
graphVars == << stubs, stub, leaf_call_ids, all_dependents >>
orderVars == << S, removed_edges, n, order >>
valVars   == << val_link_id, evaluated >>
runVars   == << registered, prior_requirements, prior_results, runs >>

----------------------------------------------------------------------------
\* Dictionaries.

EmptyMap == [x \in {} |-> NoCall]

\* d[k] = v
Put(d, k, v) == [x \in (DOMAIN d) \cup {k} |-> IF x = k THEN v ELSE d[x]]

\* d.pop(k)
Pop(d, k) == [x \in (DOMAIN d) \ {k} |-> d[x]]

\* defaultdict: d[k], the default when k is no key
Get(d, k, default) == IF k \in DOMAIN d THEN d[k] ELSE default

Range(s) == {s[i] : i \in DOMAIN s}

NoCount == [c \in Ids |-> 0]

\* the value of a call of generate_dependency_graph: none while the call is
\* under way, None when the function ends without a return statement, the
\* operand of a return statement otherwise
NotReturned == [kind |-> "pending", value |-> {}]
None == [kind |-> "None", value |-> {}]
Returned(v) == [kind |-> "value", value |-> v]

----------------------------------------------------------------------------
\* The stubbed calls.

RECURSIVE DependenciesWithin(_, _, _)
DependenciesWithin(deps, X, k) ==
    IF k = 0 THEN X
    ELSE DependenciesWithin(deps, X \cup UNION {deps[x] : x \in X}, k - 1)

\* every call the root needs, directly or not
Needed(deps, c) == DependenciesWithin(deps, deps[c], MaxCalls)

\* the dependencies that point back in the numbering of the calls
BackEdges(cs, deps) == {e \in cs \X cs : e[2] \in deps[e[1]] /\ e[2] <= e[1]}

\* The stub generator expands the root expression: it emits the root stub and
\* stubs the root needs; nothing needs the root. A dependency whose stub is
\* never emitted, and a cycle among the other calls, are malformed programs.
\* Call ids are interchangeable, so the emitted calls are numbered 1..k with
\* every call before the calls it needs, but for the back edges; the id k + 1
\* stands for a dependency whose stub is never emitted.
StubbedCalls(cs, deps) ==
    /\ contract_specification_id \in cs
    /\ \E k \in Ids : cs = 1..k /\ \A c \in cs : deps[c] \subseteq (1..(k + 1)) \cap Ids
    /\ Cardinality(BackEdges(cs, deps)) <= MaxBackEdges
    /\ \A c \in Ids \ cs : deps[c] = {}
    /\ \A c \in cs : contract_specification_id \notin deps[c]
    /\ cs \ {contract_specification_id} \subseteq Needed(deps, contract_specification_id)

\* no call needs itself, directly or not
NoCycle(deps) == \A c \in Ids : c \notin Needed(deps, c)

\* the stream of stubs, the call dup emitted twice
RECURSIVE generate_stubbed_calls(_, _, _)
generate_stubbed_calls(cs, d, i) ==
    IF i > MaxCalls THEN << >>
    ELSE (IF i \notin cs THEN << >> ELSE IF i = d THEN << i, i >> ELSE << i >>)
         \o generate_stubbed_calls(cs, d, i + 1)

----------------------------------------------------------------------------
\* the state after construction, for a host of one of the kinds hosts
InitOf(hosts) ==
    /\ calls \in SUBSET Ids
    /\ dependencies \in [Ids -> SUBSET Ids]
    /\ StubbedCalls(calls, dependencies)
    /\ dup \in calls \cup {NoCall}
    /\ host \in hosts
    \* one irregularity at a time: a stub is emitted twice only by a well-formed
    \* program, and not to a host that registers the chain by hand
    /\ dup # NoCall => host # "api" /\ NoCycle(dependencies)
    /\ call_requirement_repo = {}
    /\ call_dependencies_repo = EmptyMap
    /\ call_dependents_repo = EmptyMap
    /\ call_link_repo = EmptyMap
    /\ call_result_repo = {}
    /\ pc = "idle"
    /\ stubs = << >>
    /\ stub = NoCall
    /\ leaf_call_ids = << >>
    /\ all_dependents = EmptyMap
    /\ link_id = NoCall
    /\ returned = NotReturned
    /\ link_writes = NoCount
    /\ S = {}
    /\ removed_edges = EmptyMap
    /\ n = NoCall
    /\ order = << >>
    /\ running = {}
    /\ val_link_id = NoCall
    /\ evaluated = NoCount
    /\ raised = "none"
    /\ registered = NoCount
    /\ prior_requirements = {}
    /\ prior_results = {}
    /\ runs = 0

Init == InitOf({"generate", "api"})

----------------------------------------------------------------------------
\* generate_dependency_graph, lines 25-28: a run starts, also after a run that
\* ended in an error.
StartGraph ==
    /\ pc \in {"idle", "graph_aborted"}
    /\ runs < MaxRuns
    /\ runs' = runs + 1
    /\ stubs' = generate_stubbed_calls(calls, dup, 1)
    /\ stub' = NoCall
    /\ leaf_call_ids' = << >>
    /\ all_dependents' = EmptyMap
    /\ registered' = NoCount
    /\ prior_requirements' = call_requirement_repo
    /\ raised' = "none"
    /\ returned' = NotReturned
    /\ link_writes' = NoCount
    /\ pc' = "stubs"
    /\ UNCHANGED << inputVars, running, call_requirement_repo, call_dependencies_repo,
                    call_dependents_repo, call_link_repo, call_result_repo,
                    link_id, orderVars, valVars, prior_results >>

\* lines 28-36: the next stub, register_call_requirement
RegisterCallRequirement ==
    /\ pc = "stubs"
    /\ stubs # << >>
    /\ stub' = Head(stubs)
    /\ stubs' = Tail(stubs)
    /\ call_requirement_repo' = call_requirement_repo \cup {Head(stubs)}
    /\ registered' = [registered EXCEPT ![Head(stubs)] = @ + 1]
    /\ pc' = "reg_deps"
    /\ UNCHANGED << inputVars, running,
                    returned, link_writes, call_dependencies_repo, call_dependents_repo,
                    call_link_repo, call_result_repo, leaf_call_ids, all_dependents,
                    link_id, orderVars, valVars, raised, prior_requirements,
                    prior_results, runs >>

\* mutant: the loop of line 44 is left after the first dependency
AppendDependentOnce(d, deps, call_id) ==
    IF deps = {} THEN d
    ELSE LET dep == CHOOSE x \in deps : TRUE
         IN  Put(d, dep, Append(Get(d, dep, << >>), call_id))

\* lines 45-46: all_dependents[dependency_call_id].append(call_id)
RECURSIVE AppendDependent(_, _, _)
AppendDependent(d, deps, call_id) ==
    IF deps = {} THEN d
    ELSE LET dep == CHOOSE x \in deps : TRUE
         IN  AppendDependent(Put(d, dep, Append(Get(d, dep, << >>), call_id)),
                             deps \ {dep}, call_id)

\* mutant: line 42 reads len(dependencies) <= 1
IsLeafOrSingle(deps) == Cardinality(deps) <= 1

\* line 42
IsLeaf(deps) == Cardinality(deps) = 0

\* lines 39-46: register_call_dependencies, the leaves and the dependents
RegisterCallDependencies ==
    /\ pc = "reg_deps"
    /\ call_dependencies_repo' = Put(call_dependencies_repo, stub, dependencies[stub])
    /\ IF IsLeaf(dependencies[stub])
       THEN /\ leaf_call_ids' = Append(leaf_call_ids, stub)
            /\ all_dependents' = all_dependents
       ELSE /\ leaf_call_ids' = leaf_call_ids
            /\ all_dependents' = AppendDependent(all_dependents, dependencies[stub], stub)
    /\ stub' = NoCall
    /\ pc' = "stubs"
    /\ UNCHANGED << inputVars, running,
                    returned, link_writes, call_requirement_repo, call_dependents_repo,
                    call_link_repo, call_result_repo, stubs, link_id, orderVars,
                    valVars, raised, runVars >>

\* line 39 raises: the error leaves generate_dependency_graph
RegisterCallDependenciesFails ==
    /\ pc = "reg_deps"
    /\ host = "generate"
    /\ raised' = "RegistrationError"
    /\ pc' = "graph_aborted"
    /\ UNCHANGED << inputVars, running,
                    returned, link_writes, call_requirement_repo, call_dependencies_repo,
                    call_dependents_repo, call_link_repo, call_result_repo,
                    graphVars, link_id, orderVars, valVars, runVars >>

\* lines 49-51: register_call_dependents for every key of all_dependents,
\* then for the contract specification id, with no dependents
RegisteredDependents(repo, d) ==
    Put([x \in (DOMAIN repo) \cup (DOMAIN d) |-> IF x \in DOMAIN d THEN d[x] ELSE repo[x]],
        contract_specification_id, << >>)

\* mutant: line 82 keeps the first leaf only
FrontierOfFirst(leaves) == IF leaves = << >> THEN {} ELSE {Head(leaves)}

\* line 82: S = set(leaf_call_ids)
Frontier(leaves) == Range(leaves)

\* lines 48-54 and 82-83: the stubs are consumed; the dependents are
\* registered, the chain starts at the contract specification id and
\* generate_execution_order starts from the leaves
RegisterCallDependents ==
    /\ pc = "stubs"
    /\ stubs = << >>
    /\ call_dependents_repo' = RegisteredDependents(call_dependents_repo, all_dependents)
    /\ link_id' = contract_specification_id
    /\ S' = Frontier(leaf_call_ids)
    /\ removed_edges' = EmptyMap
    /\ n' = NoCall
    /\ order' = << >>
    /\ pc' = IF host = "generate" THEN "order"
             ELSE IF host = "api" THEN "links" ELSE "pool"
    /\ UNCHANGED << inputVars, running,
                    returned, link_writes, call_requirement_repo, call_dependencies_repo,
                    call_link_repo, call_result_repo, graphVars, valVars, raised,
                    runVars >>

\* mutant: line 56 is lost, every link is keyed by the first link id
LinkIdStays(link, call_id) == link

\* line 56: the next link is keyed by the call id yielded last
NextLinkId(link, call_id) == call_id

\* mutant: the node is read from S and left in it
PopKeeps(frontier, m) == frontier

\* line 87: S.pop() takes m out of S
PopFrom(frontier, m) == frontier \ {m}

\* lines 84-90 and 55-56: n = S.pop(); yield n; the consumer registers the
\* link while the generator is suspended at the yield
YieldNext ==
    /\ pc = "order"
    /\ S # {}
    /\ \E m \in S :
        /\ n' = m
        /\ S' = PopFrom(S, m)
        /\ order' = Append(order, m)
        /\ call_link_repo' = Put(call_link_repo, link_id, m)
        /\ link_writes' = [link_writes EXCEPT ![link_id] = @ + 1]
        /\ link_id' = NextLinkId(link_id, m)
    /\ pc' = "resume"
    /\ UNCHANGED << inputVars, running,
                    returned, call_requirement_repo, call_dependencies_repo,
                    call_dependents_repo, call_result_repo, graphVars, removed_edges,
                    valVars, raised, runVars >>

\* mutant: one removed edge is enough
SomeEdgeRemoved(m, removed) ==
    \E d \in call_dependencies_repo[m] : d \in Get(removed, m, {})

\* lines 106-109: every dependency of m is among the removed edges to m
ZeroOutstanding(m, removed) ==
    \A d \in call_dependencies_repo[m] : d \in Get(removed, m, {})

\* mutant: line 102 is lost, the edge from nn to m is not recorded
VisitDependentForgetsEdge(st, m, nn) ==
    IF ZeroOutstanding(m, st.removed_edges)
    THEN [S |-> st.S \cup {m}, removed_edges |-> Pop(st.removed_edges, m)]
    ELSE st

\* mutant: line 111 is lost, the removed edges to m are kept when m enters S
VisitDependentKeepsEdges(st, m, nn) ==
    LET removed == Put(st.removed_edges, m, Get(st.removed_edges, m, {}) \cup {nn})
    IN  IF ZeroOutstanding(m, removed)
        THEN [S |-> st.S \cup {m}, removed_edges |-> removed]
        ELSE [S |-> st.S, removed_edges |-> removed]

\* lines 102-114, for one dependent m of the node nn: st = [S, removed_edges]
VisitDependent(st, m, nn) ==
    LET removed == Put(st.removed_edges, m, Get(st.removed_edges, m, {}) \cup {nn})
    IN  IF ZeroOutstanding(m, removed)
        THEN [S |-> st.S \cup {m}, removed_edges |-> Pop(removed, m)]
        ELSE [S |-> st.S, removed_edges |-> removed]

\* lines 99-114: for m in dependents
RECURSIVE VisitDependents(_, _, _)
VisitDependents(st, dependents, nn) ==
    IF dependents = << >> THEN st
    ELSE VisitDependents(VisitDependent(st, Head(dependents), nn), Tail(dependents), nn)

\* lines 93-96: the dependents of nn, none when the lookup raises KeyError
DependentsOf(nn) == Get(call_dependents_repo, nn, << >>)

\* mutant: the defaultdict is read for n before the loop of line 99, which
\* leaves an entry for n in removed_edges
PropagateTouching ==
    /\ pc = "resume"
    /\ LET st == VisitDependents([S |-> S, removed_edges |-> removed_edges],
                                 DependentsOf(n), n)
       IN  /\ S' = st.S
           /\ removed_edges' = Put(st.removed_edges, n, Get(st.removed_edges, n, {}))
    /\ pc' = "order"
    /\ UNCHANGED << inputVars, running,
                    returned, link_writes, call_requirement_repo, call_dependencies_repo,
                    call_dependents_repo, call_link_repo, call_result_repo,
                    graphVars, link_id, n, order, valVars, raised, runVars >>

\* lines 93-114: the generator is resumed after the yield
Propagate ==
    /\ pc = "resume"
    /\ LET st == VisitDependents([S |-> S, removed_edges |-> removed_edges],
                                 DependentsOf(n), n)
       IN  /\ S' = st.S
           /\ removed_edges' = st.removed_edges
    /\ pc' = "order"
    /\ UNCHANGED << inputVars, running,
                    returned, link_writes, call_requirement_repo, call_dependencies_repo,
                    call_dependents_repo, call_link_repo, call_result_repo,
                    graphVars, link_id, n, order, valVars, raised, runVars >>

\* line 84 with S empty: the generator ends, the for loop of line 54 ends and
\* generate_dependency_graph ends after line 56, with no return statement
EndOfOrder ==
    /\ pc = "order"
    /\ S = {}
    /\ returned' = None
    /\ pc' = "graph_done"
    /\ UNCHANGED << inputVars, running,
                    link_writes, call_requirement_repo, call_dependencies_repo,
                    call_dependents_repo, call_link_repo, call_result_repo,
                    graphVars, link_id, orderVars, valVars, raised, runVars >>

\* BaseQuantDslApplication.register_call_link: the host registers the chain
\* itself, one link after the other, up to the link to the root call
ApiRegisterCallLink ==
    /\ pc = "links"
    /\ \E call_id \in call_requirement_repo \ Range(call_link_repo) :
        /\ call_link_repo' = Put(call_link_repo, link_id, call_id)
        /\ link_writes' = [link_writes EXCEPT ![link_id] = @ + 1]
        /\ link_id' = call_id
        /\ pc' = IF call_id = contract_specification_id THEN "graph_done" ELSE "links"
    /\ UNCHANGED << inputVars, running,
                    returned, call_requirement_repo, call_dependencies_repo,
                    call_dependents_repo, call_result_repo, graphVars, orderVars,
                    valVars, raised, runVars >>

----------------------------------------------------------------------------
\* The frontier-parallel model: a pool of workers drives the frontier of
\* generate_execution_order.

\* a free worker takes a call from the frontier (line 87) and begins to
\* evaluate it
WorkerTake ==
    /\ pc = "pool"
    /\ Cardinality(running) < MaxWorkers
    /\ \E m \in S :
        /\ S' = PopFrom(S, m)
        /\ running' = running \cup {m}
        /\ order' = Append(order, m)
    /\ UNCHANGED << inputVars, returned, link_writes, call_requirement_repo,
                    call_dependencies_repo, call_dependents_repo, call_link_repo,
                    call_result_repo, pc, graphVars, link_id, removed_edges, n,
                    valVars, raised, runVars >>

\* a worker finishes call m: it writes the result of m and, in one atomic
\* step, records the edge from m to every dependent and moves the satisfied
\* dependents into the frontier (lines 93-114)
WorkerFinish ==
    /\ pc = "pool"
    /\ \E m \in running :
        /\ call_result_repo' = call_result_repo \cup {m}
        /\ running' = running \ {m}
        /\ n' = m
        /\ LET st == VisitDependents([S |-> S, removed_edges |-> removed_edges],
                                     DependentsOf(m), m)
           IN  /\ S' = st.S
               /\ removed_edges' = st.removed_edges
    /\ UNCHANGED << inputVars, returned, link_writes, call_requirement_repo,
                    call_dependencies_repo, call_dependents_repo, call_link_repo,
                    pc, graphVars, link_id, order, valVars, raised, runVars >>

\* the frontier is empty and no worker is busy: the pool stops
PoolDone ==
    /\ pc = "pool"
    /\ S = {}
    /\ running = {}
    /\ pc' = "pool_done"
    /\ UNCHANGED << inputVars, running, returned, link_writes, call_requirement_repo,
                    call_dependencies_repo, call_dependents_repo, call_link_repo,
                    call_result_repo, graphVars, link_id, orderVars, valVars,
                    raised, runVars >>

----------------------------------------------------------------------------
\* generate_contract_valuation

\* regenerate_execution_order follows the chain: the call id under the link
\* id, NoCall when the link repository has no such link (the lookup raises)
NextCall(links, link) == Get(links, link, NoCall)

\* mutant: a missing result is skipped (except KeyError: continue)
get_dependency_values_skips(call_id, dependencies_repo, result_repo) ==
    IF call_id \notin DOMAIN dependencies_repo THEN "KeyError" ELSE "values"

\* get_dependency_values, lines 59-72: "values" when the dependencies of the
\* call are registered and every one has a result, else the KeyError of line
\* 62 or of lines 66-68
get_dependency_values(call_id, dependencies_repo, result_repo) ==
    IF call_id \notin DOMAIN dependencies_repo THEN "KeyError"
    ELSE IF \E stub_id \in dependencies_repo[call_id] : stub_id \notin result_repo
         THEN "KeyError"
         ELSE "values"

\* lines 138-143: a valuation starts, also after a valuation that ended in an
\* error; the chain is replayed from the dependency graph id
StartValuation ==
    /\ pc \in {"graph_done", "val_aborted"}
    /\ pc = "val_aborted" => runs < MaxRuns
    /\ runs' = IF pc = "val_aborted" THEN runs + 1 ELSE 1
    /\ val_link_id' = contract_specification_id
    /\ evaluated' = NoCount
    /\ registered' = NoCount
    /\ prior_results' = call_result_repo
    /\ prior_requirements' = call_requirement_repo
    /\ raised' = "none"
    /\ pc' = "val"
    /\ UNCHANGED << inputVars, running,
                    returned, link_writes, call_requirement_repo, call_dependencies_repo,
                    call_dependents_repo, call_link_repo, call_result_repo,
                    graphVars, link_id, orderVars >>

\* the call of this iteration of the loop of line 143 can be evaluated
CanEvaluate(call_id) ==
    /\ call_id # NoCall
    /\ call_id \in call_requirement_repo
    /\ get_dependency_values(call_id, call_dependencies_repo, call_result_repo) = "values"

\* lines 143-175: one iteration; the chain ends with the link to the root call
EvaluateCall ==
    /\ pc = "val"
    /\ LET call_id == NextCall(call_link_repo, val_link_id)
       IN  /\ CanEvaluate(call_id)
           /\ call_result_repo' = call_result_repo \cup {call_id}
           /\ evaluated' = [evaluated EXCEPT ![call_id] = @ + 1]
           /\ val_link_id' = call_id
           /\ pc' = IF call_id = contract_specification_id THEN "val_done" ELSE "val"
    /\ UNCHANGED << inputVars, running,
                    returned, link_writes, call_requirement_repo, call_dependencies_repo,
                    call_dependents_repo, call_link_repo, graphVars, link_id,
                    orderVars, raised, runVars >>

\* lines 152-172 raise (the source does not parse, does not reduce, a price
\* is missing): the error leaves generate_contract_valuation before line 175
EvaluationFails ==
    /\ pc = "val"
    /\ CanEvaluate(NextCall(call_link_repo, val_link_id))
    /\ raised' = "EvaluationError"
    /\ pc' = "val_aborted"
    /\ UNCHANGED << inputVars, running,
                    returned, link_writes, call_requirement_repo, call_dependencies_repo,
                    call_dependents_repo, call_link_repo, call_result_repo,
                    graphVars, link_id, orderVars, valVars, runVars >>

\* mutant: the result is registered before the dependencies are looked up
LookupFailsAfterStore ==
    /\ pc = "val"
    /\ LET call_id == NextCall(call_link_repo, val_link_id)
       IN  /\ ~ CanEvaluate(call_id)
           /\ call_result_repo' = IF call_id \in call_requirement_repo
                                  THEN call_result_repo \cup {call_id}
                                  ELSE call_result_repo
           /\ raised' = IF call_id = NoCall THEN "KeyError: link"
                        ELSE IF call_id \notin call_requirement_repo
                             THEN "KeyError: requirement"
                             ELSE "KeyError: dependency"
    /\ pc' = "val_aborted"
    /\ UNCHANGED << inputVars, running,
                    returned, link_writes, call_requirement_repo, call_dependencies_repo,
                    call_dependents_repo, call_link_repo,
                    graphVars, link_id, orderVars, valVars, runVars >>

\* the KeyError of the link lookup, of line 145 or of line 149 leaves
\* generate_contract_valuation
LookupFails ==
    /\ pc = "val"
    /\ LET call_id == NextCall(call_link_repo, val_link_id)
       IN  /\ ~ CanEvaluate(call_id)
           /\ raised' = IF call_id = NoCall THEN "KeyError: link"
                        ELSE IF call_id \notin call_requirement_repo
                             THEN "KeyError: requirement"
                             ELSE "KeyError: dependency"
    /\ pc' = "val_aborted"
    /\ UNCHANGED << inputVars, running,
                    returned, link_writes, call_requirement_repo, call_dependencies_repo,
                    call_dependents_repo, call_link_repo, call_result_repo,
                    graphVars, link_id, orderVars, valVars, runVars >>

----------------------------------------------------------------------------
Next ==
    \/ StartGraph
    \/ RegisterCallRequirement
    \/ RegisterCallDependencies
    \/ RegisterCallDependenciesFails
    \/ RegisterCallDependents
    \/ YieldNext
    \/ Propagate
    \/ EndOfOrder
    \/ ApiRegisterCallLink
    \/ StartValuation
    \/ EvaluateCall
    \/ EvaluationFails
    \/ LookupFails

Spec == Init /\ [][Next]_vars

FairSpec ==
    /\ Spec
    /\ WF_vars(YieldNext)
    /\ WF_vars(Propagate)
    /\ WF_vars(EndOfOrder)

\* the graph is generated by generate_dependency_graph, or registered and
\* then handed to the pool of workers
WorkerInit == InitOf({"generate", "workers"})

WorkerNext ==
    \/ StartGraph
    \/ RegisterCallRequirement
    \/ RegisterCallDependencies
    \/ RegisterCallDependenciesFails
    \/ RegisterCallDependents
    \/ YieldNext
    \/ Propagate
    \/ EndOfOrder
    \/ WorkerTake
    \/ WorkerFinish
    \/ PoolDone

WorkerSpec == WorkerInit /\ [][WorkerNext]_vars

----------------------------------------------------------------------------
\* The graph of the stubbed calls.

\* no call needs itself, directly or not
Acyclic == NoCycle(dependencies)

\* every dependency is the id of an emitted stub
Closed == \A c \in calls : dependencies[c] \subseteq calls

\* c is a registered dependent of d exactly when d is a registered dependency of c
InverseRegistries ==
    \A c \in Ids : \A d \in Ids :
        (d \in DOMAIN call_dependents_repo /\ c \in Range(call_dependents_repo[d]))
        <=> (c \in DOMAIN call_dependencies_repo /\ d \in call_dependencies_repo[c])

NoRepeat(s) == \A i \in DOMAIN s : \A j \in DOMAIN s : s[i] = s[j] => i = j

HasRepeat(s) == ~ NoRepeat(s)

\* the call ids met by following the chain from the link id start: the call
\* under the link id, then that call id as the next link id, up to the link
\* to start itself or to a link id with no link
RECURSIVE Follow(_, _, _, _)
Follow(links, link, start, fuel) ==
    IF fuel = 0 \/ NextCall(links, link) = NoCall THEN << >>
    ELSE LET call_id == NextCall(links, link)
         IN  << call_id >> \o (IF call_id = start THEN << >>
                               ELSE Follow(links, call_id, start, fuel - 1))

Chain(links, start) == Follow(links, start, start, MaxCalls + 1)

----------------------------------------------------------------------------
\* C1: Topological validity. On an acyclic graph whose dependents registry
\* is the inverse of its dependencies registry, whatever node the scheduler
\* pops, every dependency of a yielded call was yielded strictly before it.
C1_TopologicalValidity ==
    (Acyclic /\ InverseRegistries) =>
        \A i \in DOMAIN order :
            \A d \in call_dependencies_repo[order[i]] :
                \E j \in 1..(i - 1) : order[j] = d

\* a full order of an acyclic graph in which a call has two dependencies
C1_Witness ==
    /\ pc = "graph_done"
    /\ Acyclic /\ InverseRegistries
    /\ Len(order) >= 3
    /\ \E i \in DOMAIN order : Cardinality(call_dependencies_repo[order[i]]) >= 2

\* C2: Exactly-once yield. On an acyclic graph no call id is yielded twice,
\* also when a leaf is shared by several dependents and when leaf_call_ids or
\* a dependents list holds an id more than once.
C2_ExactlyOnce == Acyclic => NoRepeat(order)

\* the scheduler has ended on a graph with a yielded call whose dependents
\* list names two different calls and one of them twice
C2_Witness ==
    /\ pc = "graph_done"
    /\ Acyclic
    /\ \E d \in Range(order) :
        /\ d \in DOMAIN call_dependents_repo
        /\ HasRepeat(call_dependents_repo[d])
        /\ Cardinality(Range(call_dependents_repo[d])) >= 2
        /\ Range(call_dependents_repo[d]) \subseteq Range(order)

\* C3: Termination and completeness. On an acyclic graph in which every
\* dependency is a registered call, a started generate_execution_order ends
\* (S is empty) having yielded every registered call, |calls| nodes in all.
C3_TerminationAndCompleteness ==
    (pc = "order" /\ Acyclic /\ Closed)
        ~> (pc = "graph_done" /\ S = {} /\ Range(order) = calls
            /\ Len(order) = Cardinality(calls))

\* the scheduler has ended on an acyclic, closed graph of at least three calls
C3_Witness ==
    /\ pc = "graph_done"
    /\ Acyclic /\ Closed
    /\ Cardinality(calls) >= 3
    /\ Len(order) = Cardinality(calls)

\* C4: Results follow dependencies. A CallResult exists for a call id only
\* if a CallResult exists for every id of its CallDependencies; this holds
\* for every chain the valuation replays, the generated one included.
C4_ResultsFollowDependencies ==
    \A c \in call_result_repo :
        /\ c \in DOMAIN call_dependencies_repo
        /\ call_dependencies_repo[c] \subseteq call_result_repo

\* a valuation over a generated chain has stored the result of a call that
\* has dependencies
C4_Witness ==
    /\ host = "generate"
    /\ pc \in {"val", "val_done"}
    /\ \E c \in call_result_repo : call_dependencies_repo[c] # {}

\* C5: Completeness of results. When a valuation ends without error on an
\* acyclic graph, register_call_result was called exactly once in that run
\* for every call id of the graph, and the root call has a result.
C5_CompletenessOfResults ==
    (pc = "val_done" /\ Acyclic) =>
        /\ \A c \in calls : evaluated[c] = 1
        /\ contract_specification_id \in call_result_repo

\* a valuation over the generated chain of three calls or more has ended
C5_Witness ==
    /\ host = "generate"
    /\ pc = "val_done"
    /\ Acyclic
    /\ Cardinality(calls) >= 3

\* C6: A cycle is a fatal error. When every dependency is a registered call,
\* generate_dependency_graph does not return normally with a chain that
\* covers only part of the registered calls.
C6_CycleIsFatal ==
    (host = "generate" /\ pc = "graph_done" /\ Closed) =>
        Range(order) = call_requirement_repo

\* C7: Missing dependency. When a call is reached whose dependency has no
\* result, the step raises the KeyError of get_dependency_values: the
\* valuation is left and no CallResult is written.
C7_MissingDependency ==
    [][ LET call_id == NextCall(call_link_repo, val_link_id)
        IN  ( /\ pc = "val"
              /\ call_id \in call_requirement_repo
              /\ call_id \in DOMAIN call_dependencies_repo
              /\ ~ (call_dependencies_repo[call_id] \subseteq call_result_repo) )
            => ( /\ pc' = "val_aborted"
                 /\ raised' = "KeyError: dependency"
                 /\ call_result_repo' = call_result_repo
                 /\ evaluated' = evaluated ) ]_vars

\* a valuation was left by the KeyError of a missing dependency result, the
\* call that was reached has no result
C7_Witness ==
    /\ pc = "val_aborted"
    /\ raised = "KeyError: dependency"
    /\ NextCall(call_link_repo, val_link_id) \in call_requirement_repo
    /\ NextCall(call_link_repo, val_link_id) \notin call_result_repo

\* C8: A re-run skips finished work. In a run no register_call_result is
\* issued for a call that had its result when the run started, and no
\* register_call_requirement for a call that was registered already.
C8_RerunSkipsFinishedWork ==
    host = "generate" =>
        /\ \A c \in prior_results : evaluated[c] = 0
        /\ \A c \in prior_requirements : registered[c] = 0

\* C9: No partially registered call. Outside the two registration lines of
\* one stub, a call requirement is registered for a call id if and only if
\* the dependencies of the call are registered.
C9_NoPartiallyRegisteredCall ==
    (host = "generate" /\ pc # "reg_deps") =>
        \A c \in Ids : c \in call_requirement_repo <=> c \in DOMAIN call_dependencies_repo

\* C10: Chain replay round-trip. After generate_dependency_graph returns on
\* an acyclic graph, following the chain from the contract specification id
\* visits the call ids in the order they were yielded, each call once.
C10_ChainReplay ==
    (host = "generate" /\ pc = "graph_done" /\ Acyclic) =>
        /\ Chain(call_link_repo, contract_specification_id) = order
        /\ NoRepeat(Chain(call_link_repo, contract_specification_id))

\* the chain of an acyclic graph of three calls or more is registered
C10_Witness ==
    /\ host = "generate"
    /\ pc = "graph_done"
    /\ Acyclic
    /\ Len(order) >= 3

\* the stubs are consumed and the dependents are registered
DependentsRegistered == pc \notin {"idle", "stubs", "reg_deps", "graph_aborted"}

\* the ids that are a dependency of a registered call
RegisteredDependencyIds ==
    UNION {call_dependencies_repo[c] : c \in DOMAIN call_dependencies_repo}

\* C11: Dependents are the inverse of dependencies. Once the stubs are
\* consumed, c is a registered dependent of d exactly when d is a registered
\* dependency of c; a dependents entry exists exactly for the ids that are a
\* dependency of some call and for the contract specification id, whose
\* entry is the empty list.
C11_DependentsInverse ==
    DependentsRegistered =>
        /\ InverseRegistries
        /\ DOMAIN call_dependents_repo
               = RegisteredDependencyIds \cup {contract_specification_id}
        /\ call_dependents_repo[contract_specification_id] = << >>

\* the dependents are registered for a graph in which a call has two
\* dependencies and a call has two dependents
C11_Witness ==
    /\ DependentsRegistered
    /\ \E c \in DOMAIN call_dependencies_repo :
           Cardinality(call_dependencies_repo[c]) >= 2
    /\ \E d \in DOMAIN call_dependents_repo :
           Cardinality(Range(call_dependents_repo[d])) >= 2

\* the registered calls with an empty dependency set
LeafCalls ==
    {c \in call_requirement_repo :
        c \in DOMAIN call_dependencies_repo /\ call_dependencies_repo[c] = {}}

\* C12 as stated: the frontier the scheduler starts from is exactly the set
\* of registered calls with an empty dependency set, and
\* generate_dependency_graph returns that leaf set to its caller.
C12_LeavesReturned ==
    host = "generate" =>
        /\ DependentsRegistered => Frontier(leaf_call_ids) = LeafCalls
        /\ (pc = "order" /\ order = << >>) => S = LeafCalls
        /\ pc = "graph_done" => returned = Returned(LeafCalls)

\* C12: Leaves. The frontier the scheduler starts from is exactly the set of
\* registered calls with an empty dependency set; generate_dependency_graph
\* hands it to generate_execution_order itself (line 54) and returns None
\* to its caller.
C12_Leaves ==
    host = "generate" =>
        /\ DependentsRegistered => Frontier(leaf_call_ids) = LeafCalls
        /\ (pc = "order" /\ order = << >>) => S = LeafCalls
        /\ pc = "graph_done" => returned = None

\* generate_dependency_graph has returned for a graph with two leaves and a
\* call that is no leaf
C12_Witness ==
    /\ host = "generate"
    /\ pc = "graph_done"
    /\ returned = None
    /\ Cardinality(LeafCalls) >= 2
    /\ LeafCalls # call_requirement_repo

\* C13: Frontier-parallel ordering. When workers concurrently take calls
\* from the frontier S, evaluate them, write the results and on finishing
\* call n atomically record the edge to and test-and-move each dependent,
\* then under every interleaving no call begins evaluation before the result
\* of each of its dependencies is written; and under
\* generate_dependency_graph a call with dependencies enters S only in the
\* step that resumes the generator after the yield of one of its dependencies.
C13_FrontierParallel ==
    /\ [](host = "workers" =>
            \A c \in running \cup call_result_repo :
                call_dependencies_repo[c] \subseteq call_result_repo)
    /\ [][host = "generate" =>
            \A m \in S' \ S :
                call_dependencies_repo'[m] # {} =>
                    (pc = "resume" /\ n \in call_dependencies_repo[m])]_vars

\* a worker of the pool is evaluating a call that has two dependencies
C13_Witness ==
    /\ host = "workers"
    /\ pc = "pool"
    /\ \E c \in running : Cardinality(call_dependencies_repo[c]) >= 2

\* the registered calls that are not yielded yet and whose every dependency
\* is yielded
Ready ==
    {c \in DOMAIN call_dependencies_repo :
        c \notin Range(order) /\ call_dependencies_repo[c] \subseteq Range(order)}

\* C14: Frontier invariant. At every head of the while loop of
\* generate_execution_order on an acyclic graph, S is exactly the set of
\* calls not yet yielded whose every dependency has been yielded.
C14_FrontierInvariant ==
    (host = "generate" /\ pc = "order" /\ Acyclic) => S = Ready

\* a loop head after two yields, with a call in S that has two dependencies
C14_Witness ==
    /\ host = "generate"
    /\ pc = "order"
    /\ Acyclic
    /\ Len(order) >= 2
    /\ \E c \in S : Cardinality(call_dependencies_repo[c]) >= 2

\* the root is the only call without dependents: every other call is a
\* dependency of some call
RootIsOnlySink ==
    \A c \in calls \ {contract_specification_id} :
        \E e \in calls : c \in dependencies[e]

\* C15: Root is last. On an acyclic graph (every dependency a call of the
\* graph) in which the root is the only call without dependents, the root is
\* yielded after every other call, the finished order ends with the root,
\* and the valuation writes the result of the root after the result of every
\* other call.
C15_RootIsLast ==
    (host = "generate" /\ Acyclic /\ Closed /\ RootIsOnlySink) =>
        /\ contract_specification_id \in Range(order) =>
               (Range(order) = calls /\ order[Len(order)] = contract_specification_id)
        /\ pc = "graph_done" => contract_specification_id \in Range(order)
        /\ contract_specification_id \in call_result_repo =>
               (calls \subseteq call_result_repo
                /\ val_link_id = contract_specification_id)

\* the valuation of a graph of three calls has written the result of the
\* root, and the call written before it is the call yielded before the root
C15_Witness ==
    /\ host = "generate"
    /\ Acyclic /\ Closed /\ RootIsOnlySink
    /\ Cardinality(calls) >= 3
    /\ pc = "val_done"
    /\ contract_specification_id \in call_result_repo
    /\ order[Len(order)] = contract_specification_id

\* C16: Link ids are written once. During one run of
\* generate_dependency_graph, where the id of the root call is the contract
\* specification id, register_call_link is never called twice with the same
\* link id.
C16_LinkIdsWrittenOnce ==
    host = "generate" => \A l \in Ids : link_writes[l] <= 1

\* a run has registered a chain of three links or more and has yielded the
\* root, whose id is the link id of the first link
C16_Witness ==
    /\ host = "generate"
    /\ pc = "graph_done"
    /\ Len(order) >= 3
    /\ link_id = contract_specification_id
    /\ link_writes[contract_specification_id] = 1
    /\ \A i \in 1..(Len(order) - 1) : link_writes[order[i]] = 1

\* the call yielded last has no entry in the dependents registry (the lookup
\* of line 94 raises KeyError), or its entry is empty
NoDependents(nn) ==
    nn \notin DOMAIN call_dependents_repo \/ call_dependents_repo[nn] = << >>

RemovedEdgesAtLoopHead ==
    \A m \in DOMAIN removed_edges :
        /\ m \notin S
        /\ m \notin Range(order)
        /\ removed_edges[m] \subseteq call_dependencies_repo[m]
        /\ removed_edges[m] \subseteq Range(order)

\* no dependents list names a call twice
NoRepeatedDependent ==
    \A d \in DOMAIN call_dependents_repo : NoRepeat(call_dependents_repo[d])

\* C18 as stated: at every head of the while loop removed_edges holds entries
\* only for calls that are not in S and not yielded, every entry is a subset
\* of the dependencies of its call and holds yielded calls only, and when
\* the scheduler ends on an acyclic graph (every dependency a call of the
\* graph) removed_edges is empty.
C18_RemovedEdgesAsStated ==
    host = "generate" =>
        /\ pc = "order" => RemovedEdgesAtLoopHead
        /\ (pc = "graph_done" /\ Acyclic /\ Closed) => removed_edges = EmptyMap

\* C18: removed_edges bookkeeping. When no dependents list names a call
\* twice, at every head of the while loop removed_edges holds entries only
\* for calls that are not in S and not yielded, every entry is a subset of
\* the dependencies of its call and holds yielded calls only, and when the
\* scheduler ends on an acyclic graph removed_edges is empty.
C18_RemovedEdgesBookkeeping ==
    (host = "generate" /\ NoRepeatedDependent) =>
        /\ pc = "order" => RemovedEdgesAtLoopHead
        /\ (pc = "graph_done" /\ Acyclic /\ Closed) => removed_edges = EmptyMap

\* a loop head at which removed_edges holds an entry for a call with two
\* dependencies of which one is yielded, no dependents list naming a call twice
C18_Witness ==
    /\ host = "generate"
    /\ NoRepeatedDependent
    /\ pc = "order"
    /\ \E m \in DOMAIN removed_edges :
        /\ removed_edges[m] # {}
        /\ removed_edges[m] # call_dependencies_repo[m]
        /\ m \in calls

====
